---------------------------- MODULE Spec2Model ----------------------------
(***************************************************************************)
(* UAuthority helper functions of up-rust                                  *)
(* (src/proto/uprotocol/uauthority.rs): the has_/get_/set_ accessors of    *)
(* the `remote` oneof and validate_micro_form.                             *)
(*                                                                         *)
(* Option<T> is modelled as a sequence of length 0 (None) or 1 (Some(x)).  *)
(* Vec<u8> is a sequence of numbers in 0..255, a String a sequence of      *)
(* ASCII codes.  Result<(), ValidationError> is a record tagged by `kind`. *)
(***************************************************************************)
EXTENDS Naturals, Sequences, FiniteSets

VARIABLES
    remote,             \* UAuthority.remote : Option<Remote>
    lastCall,           \* the method called last, its argument and the
                        \* variant its assignment dropped
    validation_errors,  \* the local Vec of validate_micro_form at the end of its match
    ret                 \* Option of the Result returned by the last validate_micro_form

vars == <<remote, lastCall, validation_errors, ret>>

---------------------------------------------------------------------------
(* Bounds of the explored inputs *)

MaxNameLen == 17
MaxIpLen == 20
MaxIdLen == 257

ByteSample == {0, 255}
CharSample == {97, 47}

Fill(n, b) == [i \in 1..n |-> b]

NameInputs == {Fill(n, c) : n \in 0..MaxNameLen, c \in CharSample}
IpInputs == {Fill(n, b) : n \in 0..MaxIpLen, b \in ByteSample}
IdInputs == {Fill(n, b) : n \in 0..MaxIdLen, b \in ByteSample}

---------------------------------------------------------------------------
(* Constants of the source *)

REMOTE_IPV4_BYTES == 4
REMOTE_IPV6_BYTES == 16
REMOTE_ID_MINIMUM_BYTES == 1
REMOTE_ID_MAXIMUM_BYTES == 255

---------------------------------------------------------------------------
(* Data *)

None == <<>>
Some(x) == <<x>>

Name(s) == [variant |-> "Name", val |-> s]
Ip(v) == [variant |-> "Ip", val |-> v]
Id(v) == [variant |-> "Id", val |-> v]

Ok == [kind |-> "Ok", message |-> ""]
Err(e) == [kind |-> "Err", message |-> e.message]

\* ValidationError::new(message) and its Display
ValidationError_new(message) == [message |-> message]
to_string(err) == err.message

---------------------------------------------------------------------------
(* Accessors, as functions of the field self.remote *)

is_name(r) == r # None /\ r[1].variant = "Name"
is_ip_mut_or_id(r) == r # None /\ r[1].variant \in {"Ip", "Id"}
is_ip(r) == r # None /\ r[1].variant = "Ip"
is_id(r) == r # None /\ r[1].variant = "Id"

has_name == is_name(remote)
has_ip == is_ip(remote)
has_id == is_id(remote)

get_name == IF is_name(remote) THEN Some(remote[1].val) ELSE None
get_ip == IF is_ip(remote) THEN Some(remote[1].val) ELSE None
get_id == IF is_id(remote) THEN Some(remote[1].val) ELSE None

\* the variant of an Option<Remote>, None when there is none
VariantOf(r) == IF r = None THEN None ELSE Some(r[1].variant)

---------------------------------------------------------------------------
(* validate_micro_form: the arms of its match, each giving the reasons it  *)
(* pushes on validation_errors                                             *)

none_arm_mut_ok == <<>>
none_arm == <<ValidationError_new("Has Authority, but no remote")>>

ip_arm_mut_and(ip) ==
    IF ~(Len(ip) = REMOTE_IPV4_BYTES /\ Len(ip) = REMOTE_IPV6_BYTES)
    THEN <<ValidationError_new("IP address is not IPv4 (4 bytes) or IPv6 (16 bytes)")>>
    ELSE <<>>
ip_arm_mut_content(ip) ==
    IF ~(Len(ip) = REMOTE_IPV4_BYTES \/ Len(ip) = REMOTE_IPV6_BYTES)
       \/ (Len(ip) > 0 /\ ip[1] = 255)
    THEN <<ValidationError_new("IP address is not IPv4 (4 bytes) or IPv6 (16 bytes)")>>
    ELSE <<>>
ip_arm(ip) ==
    IF ~(Len(ip) = REMOTE_IPV4_BYTES \/ Len(ip) = REMOTE_IPV6_BYTES)
    THEN <<ValidationError_new("IP address is not IPv4 (4 bytes) or IPv6 (16 bytes)")>>
    ELSE <<>>

id_arm_mut_exclusive(id) ==
    IF ~(Len(id) >= REMOTE_ID_MINIMUM_BYTES /\ Len(id) < REMOTE_ID_MAXIMUM_BYTES)
    THEN <<ValidationError_new("ID doesn't fit in bytes allocated")>>
    ELSE <<>>
id_arm(id) ==
    IF ~(Len(id) >= REMOTE_ID_MINIMUM_BYTES /\ Len(id) <= REMOTE_ID_MAXIMUM_BYTES)
    THEN <<ValidationError_new("ID doesn't fit in bytes allocated")>>
    ELSE <<>>

name_arm_mut_nonempty(name) ==
    IF Len(name) = 0
    THEN <<ValidationError_new("Must use IP address or ID as UAuthority for micro form.")>>
    ELSE <<>>
name_arm(name) ==
    <<ValidationError_new("Must use IP address or ID as UAuthority for micro form.")>>

match_remote(r) ==
    IF r = None THEN none_arm
    ELSE IF r[1].variant = "Ip" THEN ip_arm(r[1].val)
    ELSE IF r[1].variant = "Id" THEN id_arm(r[1].val)
    ELSE name_arm(r[1].val)

\* errs.into_iter().map(|err| err.to_string()).collect::<Vec<_>>().join(", ")
RECURSIVE join(_)
join(errs) ==
    IF Len(errs) = 0 THEN ""
    ELSE IF Len(errs) = 1 THEN to_string(errs[1])
    ELSE to_string(errs[1]) \o ", " \o join(Tail(errs))

combine_mut_always_err(errs) == Err(ValidationError_new(join(errs)))
combine(errs) ==
    IF errs # <<>> THEN Err(ValidationError_new(join(errs))) ELSE Ok

---------------------------------------------------------------------------
(* Operations *)

Init ==
    /\ remote = None
    /\ lastCall = [op |-> "default", arg |-> None, dropped |-> None]
    /\ validation_errors = <<>>
    /\ ret = None

\* keeps a designator that is already set
set_name_mut_keep ==
    \E name \in NameInputs :
        /\ remote' = IF remote = None THEN Some(Name(name)) ELSE remote
        /\ lastCall' = [op |-> "set_name", arg |-> Some(name), dropped |-> VariantOf(remote)]
        /\ validation_errors' = <<>>
        /\ ret' = None

set_name ==
    \E name \in NameInputs :
        /\ remote' = Some(Name(name))
        /\ lastCall' = [op |-> "set_name", arg |-> Some(name), dropped |-> VariantOf(remote)]
        /\ validation_errors' = <<>>
        /\ ret' = None

set_ip ==
    \E ip \in IpInputs :
        /\ remote' = Some(Ip(ip))
        /\ lastCall' = [op |-> "set_ip", arg |-> Some(ip), dropped |-> VariantOf(remote)]
        /\ validation_errors' = <<>>
        /\ ret' = None

\* truncates the id to the size the micro form allows
set_id_mut_truncate ==
    \E id \in IdInputs :
        /\ remote' = Some(Id(SubSeq(id, 1, IF Len(id) > 255 THEN 255 ELSE Len(id))))
        /\ lastCall' = [op |-> "set_id", arg |-> Some(id), dropped |-> VariantOf(remote)]
        /\ validation_errors' = <<>>
        /\ ret' = None

set_id ==
    \E id \in IdInputs :
        /\ remote' = Some(Id(id))
        /\ lastCall' = [op |-> "set_id", arg |-> Some(id), dropped |-> VariantOf(remote)]
        /\ validation_errors' = <<>>
        /\ ret' = None

\* takes the remote out of the authority while inspecting it
validate_micro_form_mut_take ==
    /\ validation_errors' = match_remote(remote)
    /\ ret' = Some(combine(validation_errors'))
    /\ lastCall' = [op |-> "validate_micro_form", arg |-> None, dropped |-> None]
    /\ remote' = IF validation_errors' = <<>> THEN remote ELSE None

validate_micro_form ==
    /\ validation_errors' = match_remote(remote)
    /\ ret' = Some(combine(validation_errors'))
    /\ lastCall' = [op |-> "validate_micro_form", arg |-> None, dropped |-> None]
    /\ UNCHANGED remote

Next ==
    \/ set_name
    \/ set_ip
    \/ set_id
    \/ validate_micro_form

Spec == Init /\ [][Next]_vars

---------------------------------------------------------------------------
(* Properties *)

Validated == lastCall.op = "validate_micro_form"

ErrOf(reason) == Some([kind |-> "Err", message |-> reason])
OkResult == Some([kind |-> "Ok", message |-> ""])

\* every authority value the setters can produce, and the empty one
AllRemotes ==
    {None} \cup {Some(Name(s)) : s \in NameInputs}
           \cup {Some(Ip(v)) : v \in IpInputs}
           \cup {Some(Id(v)) : v \in IdInputs}

SameShape(r1, r2) ==
    /\ VariantOf(r1) = VariantOf(r2)
    /\ (r1 # None => Len(r1[1].val) = Len(r2[1].val))

\* C1: on an Ip remote validate_micro_form returns Ok exactly when the
\* length is 4 or 16, and for every other length Err with the one reason
\* "IP address is not IPv4 (4 bytes) or IPv6 (16 bytes)".
C1_IpLength ==
    (Validated /\ has_ip) =>
        IF Len(get_ip[1]) \in {4, 16}
        THEN ret = OkResult
        ELSE /\ ret = ErrOf("IP address is not IPv4 (4 bytes) or IPv6 (16 bytes)")
             /\ Len(validation_errors) = 1

C1_Witness ==
    /\ Validated /\ has_ip
    /\ Len(get_ip[1]) = 16
    /\ ret = OkResult

\* C2: on an Id remote validate_micro_form returns Ok exactly when the
\* length is in 1..255, and for length 0 and every length >= 256 Err with
\* the reason "ID doesn't fit in bytes allocated".
C2_IdLength ==
    (Validated /\ has_id) =>
        IF Len(get_id[1]) >= 1 /\ Len(get_id[1]) <= 255
        THEN ret = OkResult
        ELSE ret = ErrOf("ID doesn't fit in bytes allocated")

C2_Witness ==
    /\ Validated /\ has_id
    /\ Len(get_id[1]) = 255
    /\ ret = OkResult

\* C3: on a Name remote validate_micro_form always returns Err with the
\* reason "Must use IP address or ID as UAuthority for micro form.",
\* whatever the name.
C3_NameRejected ==
    (Validated /\ has_name) =>
        ret = ErrOf("Must use IP address or ID as UAuthority for micro form.")

C3_Witness ==
    /\ Validated /\ has_name
    /\ Len(get_name[1]) = 16
    /\ ret # None /\ ret[1].kind = "Err"

\* C4: with no remote set validate_micro_form returns Err with exactly one
\* reason, "Has Authority, but no remote", never Ok.
C4_NoRemote ==
    (Validated /\ remote = None) =>
        /\ ret = ErrOf("Has Authority, but no remote")
        /\ Len(validation_errors) = 1

C4_Witness ==
    /\ Validated /\ remote = None
    /\ ret # None /\ ret[1].kind = "Err"

\* C5: has_name, has_ip and has_id are pairwise exclusive; exactly one is
\* true when a remote is set and none when no remote is set.
C5_Exclusive ==
    /\ ~(has_name /\ has_ip) /\ ~(has_name /\ has_id) /\ ~(has_ip /\ has_id)
    /\ (remote # None <=> (has_name \/ has_ip \/ has_id))

C5_Witness ==
    /\ lastCall.op = "set_id" /\ lastCall.dropped = Some("Ip")
    /\ has_id /\ ~has_ip /\ ~has_name

\* C6: a setter discards the designator set before: after set_B on an
\* authority holding another variant A, has_A is false, get_A is absent and
\* has_B is true.
C6_Replaces ==
    /\ (lastCall.op = "set_name" /\ lastCall.dropped \in {Some("Ip"), Some("Id")}) =>
            has_name /\ ~has_ip /\ get_ip = None /\ ~has_id /\ get_id = None
    /\ (lastCall.op = "set_ip" /\ lastCall.dropped \in {Some("Name"), Some("Id")}) =>
            has_ip /\ ~has_name /\ get_name = None /\ ~has_id /\ get_id = None
    /\ (lastCall.op = "set_id" /\ lastCall.dropped \in {Some("Name"), Some("Ip")}) =>
            has_id /\ ~has_name /\ get_name = None /\ ~has_ip /\ get_ip = None

C6_Witness ==
    /\ lastCall.op = "set_name" /\ lastCall.dropped = Some("Ip")
    /\ has_name /\ get_ip = None

\* C7: the setters store their argument as given, whatever its length: right
\* after set_X(v), get_X is Some(v); and in every state get_X is present
\* exactly when has_X is true.
C7_SetGet ==
    /\ lastCall.op = "set_name" => get_name = lastCall.arg
    /\ lastCall.op = "set_ip" => get_ip = lastCall.arg
    /\ lastCall.op = "set_id" => get_id = lastCall.arg
    /\ (get_name # None <=> has_name)
    /\ (get_ip # None <=> has_ip)
    /\ (get_id # None <=> has_id)

C7_Witness ==
    /\ lastCall.op = "set_id"
    /\ Len(lastCall.arg[1]) = 256
    /\ get_id = lastCall.arg /\ get_ip = None /\ get_name = None

\* C8: a step of validate_micro_form leaves the remote, and so every has_
\* and get_ answer, as it was, whether it returns Ok or Err.
C8_NoMutation ==
    [][lastCall'.op = "validate_micro_form" =>
            /\ remote' = remote
            /\ has_name' = has_name /\ has_ip' = has_ip /\ has_id' = has_id
            /\ get_name' = get_name /\ get_ip' = get_ip /\ get_id' = get_id]_vars

C8_Witness ==
    /\ Validated /\ has_id
    /\ Len(get_id[1]) = 0
    /\ ret # None /\ ret[1].kind = "Err"

\* C9: validate_micro_form always returns, and either Ok with no reason
\* recorded or Err whose message is the single reason recorded.
C9_OneReason ==
    Validated =>
        /\ ret # None
        /\ \/ ret[1].kind = "Ok" /\ validation_errors = <<>>
           \/ /\ ret[1].kind = "Err"
              /\ Len(validation_errors) = 1
              /\ ret[1].message = validation_errors[1].message
              /\ ret[1].message # ""

C9_Witness ==
    /\ Validated /\ has_ip
    /\ Len(get_ip[1]) = 5
    /\ Len(validation_errors) = 1

\* C10: the result of validate_micro_form depends only on the variant of
\* the remote and its length: it equals the result for every other authority
\* of that variant and length, and a repeated call returns the same result.
C10_ShapeOnly ==
    /\ [](Validated =>
            \A other \in AllRemotes :
                SameShape(remote, other) => ret = Some(combine(match_remote(other))))
    /\ [][(Validated /\ lastCall'.op = "validate_micro_form") => ret' = ret]_vars

C10_Witness ==
    /\ Validated /\ has_ip
    /\ Len(get_ip[1]) = 4 /\ get_ip[1][1] = 255
    /\ ret = OkResult

=============================================================================
